---------------------------- MODULE Spec2Model ----------------------------
(***************************************************************************)
(* repo2file: the file selection decision (should_include) and the run of  *)
(* main around it (argument parsing, clone into a temporary directory,     *)
(* output and error-log files, the walk over candidate files).             *)
(*                                                                         *)
(* Text is a sequence of one-character strings, so that splitting a path   *)
(* into components and matching a glob are computed, not assumed.  The     *)
(* character "xFF" stands for a byte that is not valid UTF-8.              *)
(*                                                                         *)
(* Failures the source handles are outcomes the environment chooses: a     *)
(* conflict of options, TempDir::new, Repository::clone, the current       *)
(* directory's name, File::create, Glob::new, read_to_string, writeln!.    *)
(* GlobSetBuilder::build and the removal of the directory in TempDir's     *)
(* Drop are taken to succeed.                                              *)
(***************************************************************************)
EXTENDS Integers, Sequences, FiniteSets, TLC

(***************************************************************************)
(* Bounds of the model.                                                    *)
(***************************************************************************)
\* longest user-supplied --ignore-files / --ignore-dirs list
MaxIgnore == 2
\* longest user-supplied --include-files list
MaxInclude == 1
\* most files the walker yields in one run
MaxWalk == 2

(***************************************************************************)
(* Option<T>                                                               *)
(***************************************************************************)
None == [some |-> FALSE, v |-> <<>>]
Some(x) == [some |-> TRUE, v |-> x]

Range(s) == {s[i] : i \in 1..Len(s)}

SeqsUpTo(S, n) == UNION {[1..k -> S] : k \in 0..n}

(***************************************************************************)
(* std::path::Path on unix                                                 *)
(***************************************************************************)
\* the segments of s between "/" characters (empty segments included)
RECURSIVE SplitFrom(_, _, _)
SplitFrom(s, i, cur) ==
  IF i > Len(s) THEN <<cur>>
  ELSE IF s[i] = "/" THEN <<cur>> \o SplitFrom(s, i + 1, <<>>)
  ELSE SplitFrom(s, i + 1, Append(cur, s[i]))

Split(s) == SplitFrom(s, 1, <<>>)

HasRoot(s) == Len(s) > 0 /\ s[1] = "/"

\* Components::include_cur_dir: a leading "." is a component only when the
\* path has no root and starts with "." followed by a separator or the end
IncludeCurDir(s) ==
  /\ ~HasRoot(s)
  /\ Len(s) > 0 /\ s[1] = "."
  /\ (Len(s) = 1 \/ s[2] = "/")

\* Path::components: RootDir is <<"/">>, CurDir <<".">>, ParentDir
\* <<".", ".">>, a Normal component its name; empty segments and interior
\* "." segments are skipped
Components(s) ==
  LET segs == Split(s)
      keep == SelectSeq(segs, LAMBDA g : g # <<>> /\ g # <<".">>)
  IN  (IF HasRoot(s) THEN << <<"/">> >> ELSE <<>>)
        \o (IF IncludeCurDir(s) THEN << <<".">> >> ELSE <<>>)
        \o keep

\* Path::ends_with: child's components are a suffix of self's components
ends_with(path, child) ==
  LET pc == Components(path)
      cc == Components(child)
  IN  /\ Len(cc) <= Len(pc)
      /\ \A i \in 1..Len(cc) : cc[i] = pc[Len(pc) - Len(cc) + i]

\* Path::to_str: None when the bytes are not valid UTF-8
IsUtf8(s) == \A i \in 1..Len(s) : s[i] # "xFF"

\* path.to_str().unwrap_or_default()
to_str_or_default(path) == IF IsUtf8(path) THEN path ELSE <<>>

(***************************************************************************)
(* globset::Glob, default options (literal_separator off), over patterns   *)
(* made of literal characters, "?", "*" and "[...]" classes without        *)
(* ranges.                                                                 *)
(***************************************************************************)
\* position of the "]" that closes the class opened at pattern position i
\* (a "]" right after "[", "[!" or "[^" is a member), 0 when there is none
RECURSIVE ClassEndFrom(_, _)
ClassEndFrom(p, j) ==
  IF j > Len(p) THEN 0
  ELSE IF p[j] = "]" THEN j
  ELSE ClassEndFrom(p, j + 1)

ClassFirst(p, i) ==
  IF i + 1 <= Len(p) /\ p[i + 1] \in {"!", "^"} THEN i + 2 ELSE i + 1

ClassEnd(p, i) == ClassEndFrom(p, ClassFirst(p, i) + 1)

\* Glob::new(pattern).is_ok(): an unclosed class is ErrorKind::UnclosedClass
RECURSIVE GlobOkFrom(_, _)
GlobOkFrom(p, i) ==
  IF i > Len(p) THEN TRUE
  ELSE IF p[i] = "["
       THEN ClassEnd(p, i) # 0 /\ GlobOkFrom(p, ClassEnd(p, i) + 1)
       ELSE GlobOkFrom(p, i + 1)

Glob_new_is_ok(pattern) == GlobOkFrom(pattern, 1)

ClassMatches(p, i, c) ==
  LET first == ClassFirst(p, i)
      neg == first = i + 2
      members == {p[k] : k \in first..(ClassEnd(p, i) - 1)}
  IN  IF neg THEN c \notin members ELSE c \in members

\* the compiled matcher: "?" is any one character, "*" any run of
\* characters ("/" included), the whole text must match
RECURSIVE MatchFrom(_, _, _, _)
MatchFrom(p, i, t, j) ==
  IF i > Len(p) THEN j > Len(t)
  ELSE IF p[i] = "*"
       THEN MatchFrom(p, i + 1, t, j) \/ (j <= Len(t) /\ MatchFrom(p, i, t, j + 1))
  ELSE IF p[i] = "?"
       THEN j <= Len(t) /\ MatchFrom(p, i + 1, t, j + 1)
  ELSE IF p[i] = "["
       THEN /\ j <= Len(t)
            /\ ClassMatches(p, i, t[j])
            /\ MatchFrom(p, ClassEnd(p, i) + 1, t, j + 1)
  ELSE j <= Len(t) /\ t[j] = p[i] /\ MatchFrom(p, i + 1, t, j + 1)

IsLiteral(p) == \A i \in 1..Len(p) : p[i] \notin {"*", "?", "["}

\* MatchStrategy::Literal for a pattern without wildcards, ::Suffix for "*"
\* followed by a literal, the regex otherwise; all decide the same matches
GlobMatch(p, t) ==
  IF IsLiteral(p) THEN p = t
  ELSE IF p[1] = "*" /\ IsLiteral(Tail(p))
       THEN Len(t) >= Len(p) - 1 /\ SubSeq(t, Len(t) - Len(p) + 2, Len(t)) = Tail(p)
  ELSE MatchFrom(p, 1, t, 1)

(***************************************************************************)
(* default_ignore.rs: DefaultIgnore::default()                             *)
(***************************************************************************)
DefaultIgnoreDirs ==
  << <<"n","o","d","e","_","m","o","d","u","l","e","s">>,
     <<".","g","i","t">>,
     <<".","i","d","e","a">>,
     <<".","v","s","c","o","d","e">> >>

DefaultIgnoreFiles ==
  << <<"*","L","I","C","E","N","C","E",".","m","d">>,
     <<"*","C","H","A","N","G","E","L","O","G",".","m","d">>,
     <<"*",".","D","S","_","S","t","o","r","e">>,
     <<"*",".","a","l","l","-","c","o","n","t","r","i","b","u","t","o","r","s","r","c">>,
     <<"*",".","y","a","m","l">>,
     <<"*",".","y","m","l">>,
     <<"*",".","j","s","o","n">>,
     <<"*",".","c","s","v">>,
     <<"*",".","s","v","g">>,
     <<"*",".","c","o","n","f">>,
     <<"*",".","i","n","i">>,
     <<"*",".","e","n","v">>,
     <<"*",".","l","o","g">>,
     <<"*",".","t","m","p">>,
     <<"*",".","p","y","c">>,
     <<"*",".","c","l","a","s","s">>,
     <<"*",".","o">>,
     <<"*",".","o","b","j">>,
     <<"*",".","e","x","e">>,
     <<"*",".","d","l","l">>,
     <<"*",".","s","o">>,
     <<"*",".","d","y","l","i","b">>,
     <<"*",".","n","c","b">>,
     <<"*",".","s","d","f">>,
     <<"*",".","s","u","o">>,
     <<"*",".","p","d","b">>,
     <<"*",".","i","d","b">>,
     <<"*",".","l","o","c","k">>,
     <<"*",".","t","o","m","l">>,
     <<".","p","r","e","t","t","i","e","r","r","c",".","*">>,
     <<"*",".","t","x","t">>,
     <<"P","i","p","f","i","l","e">>,
     <<"*",".","c","f","g">>,
     <<".","g","i","t","i","g","n","o","r","e">>,
     <<".","g","i","t","a","t","t","r","i","b","u","t","e","s">>,
     <<".","d","o","c","k","e","r","i","g","n","o","r","e">>,
     <<".","e","n","v">>,
     <<".","f","l","a","s","k","e","n","v">>,
     <<".","e","d","i","t","o","r","c","o","n","f","i","g">>,
     <<"M","a","k","e","f","i","l","e">>,
     <<"C","M","a","k","e","L","i","s","t","s",".","t","x","t">> >>
DefaultIgnore_default ==
  [ignore_files |-> DefaultIgnoreFiles, ignore_dirs |-> DefaultIgnoreDirs]

\* main.rs, mod tests: default_ignore_files()
TestIgnoreFiles ==
  << <<"n","o","d","e","_","m","o","d","u","l","e","s">>,
     <<"t","a","r","g","e","t">>,
     <<".","v","s","c","o","d","e">>,
     <<"*",".","l","o","c","k">> >>

TestIgnoreDirs ==
  << <<"n","o","d","e","_","m","o","d","u","l","e","s">>,
     <<"t","a","r","g","e","t">>,
     <<".","v","s","c","o","d","e">> >>

default_ignore_files ==
  [ignore_files |-> TestIgnoreFiles, ignore_dirs |-> TestIgnoreDirs]

(***************************************************************************)
(* main.rs: should_include                                                 *)
(***************************************************************************)
\* variant: a user list replaces the defaults instead of extending them
UserReplacesDefaults(defaults, user) == IF user.some THEN user.v ELSE defaults

\* lines 117-126: the defaults, extended by the user's list when given
EffectiveList(defaults, user) ==
  defaults \o (IF user.some THEN user.v ELSE <<>>)

\* lines 128-132: every pattern is compiled, Glob::new(pattern).unwrap()
AllGlobsCompile(ignore_files) ==
  \A i \in 1..Len(ignore_files) : Glob_new_is_ok(ignore_files[i])

\* glob_set.is_match(path_str)
glob_set_is_match(ignore_files, path_str) ==
  \E i \in 1..Len(ignore_files) : GlobMatch(ignore_files[i], path_str)

\* line 135: include_files.iter().any(|f| path.ends_with(f))
IncludeRule(path, include_files) ==
  \E i \in 1..Len(include_files) : ends_with(path, include_files[i])

\* variant: only the compiled globs are consulted
FileRuleGlobOnly(path, ignore_files) ==
  glob_set_is_match(ignore_files, to_str_or_default(path))

\* lines 138-140: glob_set.is_match(path_str) || any(path.ends_with(f))
FileRule(path, ignore_files) ==
  \/ glob_set_is_match(ignore_files, to_str_or_default(path))
  \/ \E i \in 1..Len(ignore_files) : ends_with(path, ignore_files[i])

\* variant: only the file's own directory is compared
DirRuleParentOnly(path, ignore_dirs) ==
  LET comps == Components(path)
  IN  \E i \in 1..Len(ignore_dirs) :
        Len(comps) >= 2 /\ comps[Len(comps) - 1] = ignore_dirs[i]

\* variant: a component that starts with an entry counts as that entry
DirRulePrefix(path, ignore_dirs) ==
  LET comps == Components(path)
  IN  \E i \in 1..Len(ignore_dirs) : \E k \in 1..Len(comps) :
        /\ Len(ignore_dirs[i]) <= Len(comps[k])
        /\ SubSeq(comps[k], 1, Len(ignore_dirs[i])) = ignore_dirs[i]

\* lines 144-147: any entry equal to any component of the path
DirRule(path, ignore_dirs) ==
  LET comps == Components(path)
  IN  \E i \in 1..Len(ignore_dirs) : \E k \in 1..Len(comps) :
        comps[k] = ignore_dirs[i]

\* the whole function: "true", "false", or "panic" when an unwrap fails
should_include(path, args, config) ==
  LET ignore_files == EffectiveList(config.ignore_files, args.ignore_files)
      ignore_dirs == EffectiveList(config.ignore_dirs, args.ignore_dirs)
  IN  IF ~AllGlobsCompile(ignore_files) THEN "panic"
      ELSE IF args.include_files.some
           THEN IF IncludeRule(path, args.include_files.v) THEN "true" ELSE "false"
      ELSE IF FileRule(path, ignore_files) THEN "false"
      ELSE IF DirRule(path, ignore_dirs) THEN "false"
      ELSE "true"

(***************************************************************************)
(* Inputs the model draws from                                             *)
(***************************************************************************)
T_r == <<"r">>
T_mgo == <<"m",".","g","o">>
T_src == <<"s","r","c">>
T_src_mgo == <<"s","r","c","/","m",".","g","o">>
T_alog == <<"a",".","l","o","g">>
T_glob_go == <<"r","/","*",".","g","o">>
T_unclosed == <<"[">>
T_github == <<"h","t","t","p","s",":","/","/","g","i","t","h","u","b",".","c","o","m","/">>
T_url == T_github \o <<"u","/","r">>
T_tmp == <<"/","t","m","p","/","t","e","m","p","-","r","e","p","o","2","f","i","l","e",".","X">>

\* candidate paths handed to should_include
PathPool ==
  { <<"r","/","m",".","g","o">>,
    <<"r","/","a",".","l","o","g">>,
    <<"r","/","a",".","l","o","c","k">>,
    <<"r","/","M","a","k","e","f","i","l","e">>,
    <<"r","/",".","v","s","c","o","d","e","/","m",".","g","o">>,
    <<"r","/","s","r","c","/","m",".","g","o">>,
    <<"r","/","s","r","c","/","b","/","m",".","g","o">>,
    <<"r","/","s","r","c","x","/","n",".","g","o">>,
    <<"r","/","x","m",".","g","o">>,
    <<"r","/","xFF","a",".","l","o","g">> }

UserFilePool == {T_mgo, T_glob_go, T_unclosed}
UserDirPool == {T_src, T_mgo}
IncludePool == {T_mgo, T_src_mgo}
ConfigPool == {DefaultIgnore_default, default_ignore_files}

OptionOf(S) == {None} \cup {Some(x) : x \in S}

\* struct Cli as a test builds it: any combination of the three lists
CliStructs ==
  [ input : {T_r},
    ignore_files : OptionOf(SeqsUpTo(UserFilePool, MaxIgnore)),
    ignore_dirs : OptionOf(SeqsUpTo(UserDirPool, MaxIgnore)),
    include_files : OptionOf(SeqsUpTo(IncludePool, MaxInclude)),
    output : {Some(<<"o">>)},
    error_log : {FALSE} ]

\* command lines given to the program
CommandLines ==
  [ input : {T_r, T_url},
    ignore_files : {None, Some(<<T_mgo>>), Some(<<T_unclosed>>)},
    ignore_dirs : {None, Some(<<T_src>>)},
    include_files : {None, Some(<<T_mgo>>)},
    output : {None, Some(<<"o">>)},
    error_log : BOOLEAN ]

\* files below the input directory, as the walker may yield them
WalkPool == {T_mgo, T_alog, T_src_mgo}

(***************************************************************************)
(* State                                                                   *)
(***************************************************************************)
VARIABLES
  call,        \* should_include called on its own: [path, args, config]
  ret,         \* its result: "pending", "true", "false" or "panic"
  args,        \* main: the parsed Cli
  pc,          \* main: the statement about to run
  tempDir,     \* the clone's temporary directory: "none", "exists", "removed"
  input_path,  \* main: the directory handed to the walker
  outputFile,  \* the output file on disk: "absent" or "created"
  errorLogFile,\* the error log on disk: "absent" or "created"
  yielded,     \* entries the walker yielded: [path, readable, verdict]
  output,      \* blocks written to the output file, as indices into yielded
  errorLog,    \* lines written to the error log, as indices into yielded
  outcome,     \* "running", "ok", "err", "panic", "rejected"
  failedAt     \* the statement that ended the run, "" when none did

vars == << call, ret, args, pc, tempDir, input_path, outputFile, errorLogFile,
           yielded, output, errorLog, outcome, failedAt >>

mainVars == << args, pc, tempDir, input_path, outputFile, errorLogFile,
               yielded, output, errorLog, outcome, failedAt >>

(***************************************************************************)
(* should_include on its own, as the unit tests call it                    *)
(***************************************************************************)
InitDecide ==
  /\ call \in [path : PathPool, args : CliStructs, config : ConfigPool]
  /\ ret = "pending"
  /\ args = None
  /\ pc = "idle"
  /\ tempDir = "none"
  /\ input_path = <<>>
  /\ outputFile = "absent"
  /\ errorLogFile = "absent"
  /\ yielded = <<>>
  /\ output = <<>>
  /\ errorLog = <<>>
  /\ outcome = "running"
  /\ failedAt = ""

Decide ==
  /\ ret = "pending"
  /\ pc = "idle"
  /\ ret' = should_include(call.path, call.args, call.config)
  /\ UNCHANGED << call, mainVars >>

NextDecide == Decide

SpecDecide == InitDecide /\ [][NextDecide]_vars

(***************************************************************************)
(* main                                                                    *)
(***************************************************************************)
Init ==
  /\ args \in CommandLines
  /\ pc = "from_args"
  /\ call = None
  /\ ret = "pending"
  /\ tempDir = "none"
  /\ input_path = <<>>
  /\ outputFile = "absent"
  /\ errorLogFile = "absent"
  /\ yielded = <<>>
  /\ output = <<>>
  /\ errorLog = <<>>
  /\ outcome = "running"
  /\ failedAt = ""

\* the run ends here with the given outcome
Exit(how, where) ==
  /\ pc' = "exit"
  /\ outcome' = how
  /\ failedAt' = where

\* variant: the attribute is missing
NoConflictCheck(a) == FALSE

\* line 32: include_files conflicts_with_all ignore_files, ignore_dirs
conflicts_with_all(a) ==
  a.include_files.some /\ (a.ignore_files.some \/ a.ignore_dirs.some)

\* line 45: Cli::from_args() ends the process on a conflict
from_args ==
  /\ pc = "from_args"
  /\ IF conflicts_with_all(args)
     THEN Exit("rejected", "Cli::from_args")
     ELSE pc' = "input" /\ UNCHANGED << outcome, failedAt >>
  /\ UNCHANGED << call, ret, args, tempDir, input_path, outputFile,
                  errorLogFile, yielded, output, errorLog >>

\* lines 154-157
is_github_url(path) ==
  /\ IsUtf8(path)
  /\ Len(path) >= Len(T_github)
  /\ SubSeq(path, 1, Len(T_github)) = T_github

\* lines 55-57: a local input is walked where it is
LocalInput ==
  /\ pc = "input"
  /\ ~is_github_url(args.input)
  /\ input_path' = args.input
  /\ pc' = "output_path"
  /\ UNCHANGED << call, ret, args, tempDir, outputFile, errorLogFile,
                  yielded, output, errorLog, outcome, failedAt >>

\* line 160: TempDir::new("temp-repo2file")?
TempDir_new ==
  /\ pc = "input"
  /\ is_github_url(args.input)
  /\ \E ok \in BOOLEAN :
       IF ok
       THEN /\ tempDir' = "exists"
            /\ pc' = "clone"
            /\ UNCHANGED << outcome, failedAt >>
       ELSE /\ Exit("err", "TempDir::new")
            /\ UNCHANGED tempDir
  /\ UNCHANGED << call, ret, args, input_path, outputFile, errorLogFile,
                  yielded, output, errorLog >>

\* variant: the directory is kept when the clone fails
LeakedOnCloneFailure == "exists"

\* lines 161-166: the early return on a failed clone drops temp_dir, and
\* TempDir's Drop removes the directory
TempDirAfterCloneFailure == "removed"

\* lines 161-167 and 48-53: Repository::clone(...)?, the error goes up
\* through main
Repository_clone ==
  /\ pc = "clone"
  /\ \E ok \in BOOLEAN :
       IF ok
       THEN /\ pc' = "input_block_end"
            /\ UNCHANGED << tempDir, outcome, failedAt >>
       ELSE /\ tempDir' = TempDirAfterCloneFailure
            /\ Exit("err", "Repository::clone")
  /\ UNCHANGED << call, ret, args, input_path, outputFile, errorLogFile,
                  yielded, output, errorLog >>

\* lines 54-55: the block's value is temp_dir.path().to_owned(); temp_dir
\* is a local of the block and is dropped where the block ends
InputBlockEnd ==
  /\ pc = "input_block_end"
  /\ input_path' = T_tmp
  /\ tempDir' = "removed"
  /\ pc' = "output_path"
  /\ UNCHANGED << call, ret, args, outputFile, errorLogFile, yielded, output,
                  errorLog, outcome, failedAt >>

\* lines 59-62: without an output argument the name comes from the current
\* directory, and both unwraps can fail
OutputPath ==
  /\ pc = "output_path"
  /\ \E cwdNamed \in BOOLEAN :
       IF args.output.some \/ cwdNamed
       THEN pc' = "create_output" /\ UNCHANGED << outcome, failedAt >>
       ELSE Exit("panic", "current_dir().file_name().unwrap()")
  /\ UNCHANGED << call, ret, args, tempDir, input_path, outputFile,
                  errorLogFile, yielded, output, errorLog >>

\* line 64: File::create(output)?
CreateOutput ==
  /\ pc = "create_output"
  /\ \E ok \in BOOLEAN :
       IF ok
       THEN /\ outputFile' = "created"
            /\ pc' = "create_error_log"
            /\ UNCHANGED << outcome, failedAt >>
       ELSE /\ Exit("err", "File::create(output)")
            /\ UNCHANGED outputFile
  /\ UNCHANGED << call, ret, args, tempDir, input_path, errorLogFile,
                  yielded, output, errorLog >>

\* lines 66-70
CreateErrorLog ==
  /\ pc = "create_error_log"
  /\ \E ok \in BOOLEAN :
       IF ~args.error_log
       THEN pc' = "walk" /\ UNCHANGED << errorLogFile, outcome, failedAt >>
       ELSE IF ok
       THEN /\ errorLogFile' = "created"
            /\ pc' = "walk"
            /\ UNCHANGED << outcome, failedAt >>
       ELSE /\ Exit("err", "File::create(error_log)")
            /\ UNCHANGED errorLogFile
  /\ UNCHANGED << call, ret, args, tempDir, input_path, outputFile,
                  yielded, output, errorLog >>

\* the walker finds files only in a directory that exists
WalkerCanRead == (tempDir = "exists") \/ ~is_github_url(args.input)

\* lines 100-113: write_error_to_log, TRUE when it returns Ok
write_error_to_log_ok(enabled, writeOk) == ~enabled \/ writeOk

\* lines 72-95: one turn of the loop, for the next file the walker yields
LoopBody ==
  /\ pc = "walk"
  /\ WalkerCanRead
  /\ Len(yielded) < MaxWalk
  /\ \E rel \in WalkPool, readable \in BOOLEAN, writeOk \in BOOLEAN :
       LET path == input_path \o <<"/">> \o rel
           verdict == should_include(path, args, DefaultIgnore_default)
           i == Len(yielded) + 1
       IN  /\ yielded' = Append(yielded, [path |-> path, readable |-> readable,
                                          verdict |-> verdict])
           /\ IF verdict = "panic"
              THEN /\ Exit("panic", "Glob::new(pattern).unwrap()")
                   /\ UNCHANGED << output, errorLog >>
              ELSE IF verdict = "false"
              THEN UNCHANGED << pc, outcome, failedAt, output, errorLog >>
              ELSE IF readable
              THEN IF writeOk
                   THEN /\ output' = Append(output, i)
                        /\ UNCHANGED << pc, outcome, failedAt, errorLog >>
                   ELSE /\ Exit("err", "writeln!(output_file)")
                        /\ UNCHANGED << output, errorLog >>
              ELSE IF write_error_to_log_ok(args.error_log, writeOk)
                   THEN /\ errorLog' = IF args.error_log
                                       THEN Append(errorLog, i) ELSE errorLog
                        /\ UNCHANGED << pc, outcome, failedAt, output >>
                   ELSE /\ Exit("err", "write_error_to_log")
                        /\ UNCHANGED << output, errorLog >>
  /\ UNCHANGED << call, ret, args, tempDir, input_path, outputFile, errorLogFile >>

\* line 97: the walker has no more files, main returns Ok(())
WalkEnd ==
  /\ pc = "walk"
  /\ Exit("ok", "")
  /\ UNCHANGED << call, ret, args, tempDir, input_path, outputFile,
                  errorLogFile, yielded, output, errorLog >>

Next ==
  \/ from_args
  \/ LocalInput
  \/ TempDir_new
  \/ Repository_clone
  \/ InputBlockEnd
  \/ OutputPath
  \/ CreateOutput
  \/ CreateErrorLog
  \/ LoopBody
  \/ WalkEnd

Spec == Init /\ [][Next]_vars

(***************************************************************************)
(* Properties of should_include (checked under SpecDecide)                 *)
(***************************************************************************)
Returned == ret \in {"true", "false"}
IncludeOnly == call.args.include_files.some
IgnoreBased == ~call.args.include_files.some

UserEntries(opt) == IF opt.some THEN Range(opt.v) ELSE {}
IgnoredFileEntries == Range(call.config.ignore_files) \cup UserEntries(call.args.ignore_files)
IgnoredDirEntries == Range(call.config.ignore_dirs) \cup UserEntries(call.args.ignore_dirs)

\* child, split into components, is a suffix of path split into components
EndsWithComponents(path, child) ==
  LET p == Components(path)
      c == Components(child)
  IN  Len(c) <= Len(p) /\ SubSeq(p, Len(p) - Len(c) + 1, Len(p)) = c

\* the path's text (empty when the path is not valid UTF-8, line 138)
\* matches a well-formed glob of the effective ignore-file list
TextMatchesIgnoredGlob ==
  \E g \in IgnoredFileEntries :
    Glob_new_is_ok(g) /\ GlobMatch(g, to_str_or_default(call.path))

EndsWithIgnoredEntry ==
  \E f \in IgnoredFileEntries : EndsWithComponents(call.path, f)

HasIgnoredDirComponent ==
  \E d \in IgnoredDirEntries : \E k \in 1..Len(Components(call.path)) :
    Components(call.path)[k] = d

\* C1: in include-only mode the call returns Include exactly when the path
\* ends, component-wise, with an entry of the include list, whatever the
\* default and user ignore lists hold.
C1_IncludeOnlyIgnoresIgnoreLists ==
  (ret # "pending" /\ IncludeOnly) =>
    ret = (IF \E f \in Range(call.args.include_files.v) :
                EndsWithComponents(call.path, f)
           THEN "true" ELSE "false")

\* what remains of the include-only rule when every ignore pattern
\* compiles: the verdict is the component-wise suffix test alone
IncludeOnlyWhenReturned ==
  (Returned /\ IncludeOnly) =>
    ret = (IF \E f \in Range(call.args.include_files.v) :
                EndsWithComponents(call.path, f)
           THEN "true" ELSE "false")

\* C2: in ignore-based mode a path whose text matches a glob of the
\* effective ignore-file list, or that ends with an entry of it taken as a
\* literal path suffix, is excluded whenever the call returns.
C2_FileRuleExcludes ==
  (Returned /\ IgnoreBased /\ (TextMatchesIgnoredGlob \/ EndsWithIgnoredEntry))
    => ret = "false"

\* a path excluded by the literal-suffix form alone
C2_Witness ==
  /\ Returned /\ IgnoreBased
  /\ ~TextMatchesIgnoredGlob
  /\ EndsWithIgnoredEntry
  /\ ret = "false"

\* C3: in ignore-based mode a path with a component, at any depth, equal
\* to an entry of the effective ignore-directory list is excluded whenever
\* the call returns, whatever its file name.
C3_DirRuleExcludes ==
  (Returned /\ IgnoreBased /\ HasIgnoredDirComponent) => ret = "false"

\* a path excluded only by a directory two levels above the file
C3_Witness ==
  /\ Returned /\ IgnoreBased
  /\ ~TextMatchesIgnoredGlob /\ ~EndsWithIgnoredEntry
  /\ LET comps == Components(call.path)
     IN  /\ Len(comps) >= 3
         /\ comps[Len(comps) - 2] \in IgnoredDirEntries
         /\ comps[Len(comps) - 1] \notin IgnoredDirEntries
         /\ comps[Len(comps)] \notin IgnoredDirEntries
  /\ ret = "false"

\* C4: in ignore-based mode a path that matches no glob of the effective
\* ignore-file list, ends with no entry of it and has no component in the
\* effective ignore-directory list is included whenever the call returns.
C4_OtherwiseIncluded ==
  (Returned /\ IgnoreBased /\ ~TextMatchesIgnoredGlob /\ ~EndsWithIgnoredEntry
     /\ ~HasIgnoredDirComponent) => ret = "true"

\* a path included although user lists are present and a component merely
\* starts with an ignored directory name
C4_Witness ==
  /\ Returned /\ IgnoreBased
  /\ call.args.ignore_files.some /\ call.args.ignore_files.v # <<>>
  /\ call.args.ignore_dirs.some /\ call.args.ignore_dirs.v # <<>>
  /\ \E d \in IgnoredDirEntries : \E k \in 1..Len(Components(call.path)) :
       LET c == Components(call.path)[k]
       IN  Len(c) > Len(d) /\ SubSeq(c, 1, Len(d)) = d
  /\ ret = "true"

SwapAt(s, i) ==
  [k \in 1..Len(s) |-> IF k = i THEN s[i + 1] ELSE IF k = i + 1 THEN s[i] ELSE s[k]]

Reverse(s) == [k \in 1..Len(s) |-> s[Len(s) + 1 - k]]

\* the same lists with two neighbouring entries exchanged; every order of
\* a list is reached from any other by such exchanges
Reordered(a) ==
  {[a EXCEPT !.ignore_files = Some(SwapAt(a.ignore_files.v, i))] :
      i \in 1..(Len(a.ignore_files.v) - 1)}
  \cup
  {[a EXCEPT !.ignore_dirs = Some(SwapAt(a.ignore_dirs.v, i))] :
      i \in 1..(Len(a.ignore_dirs.v) - 1)}

ReversedConfig(c) ==
  [ignore_files |-> Reverse(c.ignore_files), ignore_dirs |-> Reverse(c.ignore_dirs)]

WithoutUserLists(a) == [a EXCEPT !.ignore_files = None, !.ignore_dirs = None]

\* C10: in ignore-based mode, with well-formed lists, a path excluded under
\* the defaults alone stays excluded under the defaults plus the user
\* lists, and the verdict is the same for every order of the entries.
C10_UserListsOnlyExclude ==
  (Returned /\ IgnoreBased) =>
    /\ (should_include(call.path, WithoutUserLists(call.args), call.config) = "false"
          => ret = "false")
    /\ \A a \in Reordered(call.args) :
         should_include(call.path, a, call.config) = ret
    /\ should_include(call.path, call.args, ReversedConfig(call.config)) = ret

\* a path the defaults exclude, called with two different user file
\* entries and a user directory entry
C10_Witness ==
  /\ Returned /\ IgnoreBased
  /\ should_include(call.path, WithoutUserLists(call.args), call.config) = "false"
  /\ call.args.ignore_files.some /\ Len(call.args.ignore_files.v) = 2
  /\ call.args.ignore_files.v[1] # call.args.ignore_files.v[2]
  /\ call.args.ignore_dirs.some /\ call.args.ignore_dirs.v # <<>>
  /\ ret = "false"

(***************************************************************************)
(* Properties of a run of main (checked under Spec)                        *)
(***************************************************************************)
IncludeWithIgnoreSupplied ==
  args.include_files.some /\ (args.ignore_files.some \/ args.ignore_dirs.some)

\* C5: a command line that gives an include list together with an ignore
\* list is rejected by argument parsing: the run goes no further, nothing
\* is created and no path is ever evaluated.
C5_ConflictRejected ==
  IncludeWithIgnoreSupplied =>
    /\ pc \in {"from_args", "exit"}
    /\ (pc = "exit" => outcome = "rejected")
    /\ yielded = <<>>
    /\ outputFile = "absent"

C5_Witness ==
  IncludeWithIgnoreSupplied /\ pc = "exit" /\ outcome = "rejected"

MalformedUserGlob ==
  args.ignore_files.some
    /\ \E g \in Range(args.ignore_files.v) : ~Glob_new_is_ok(g)

\* C6: with a malformed user ignore-file pattern the run is rejected before
\* the walker offers any path and before an output file exists, also when
\* the walker yields no files.
C6_MalformedGlobRejectedFirst ==
  MalformedUserGlob =>
    /\ yielded = <<>>
    /\ outputFile = "absent"
    /\ (pc = "exit" => outcome # "ok")

\* C7: for a remote input the temporary directory exists whenever the
\* walker is reading it.
C7_TempDirOutlivesWalk ==
  (is_github_url(args.input) /\ pc = "walk") => tempDir = "exists"

\* C8: when the clone fails the run ends in an error with no path
\* evaluated, nothing appended, and no temporary directory left behind.
C8_CloneFailureAborts ==
  (pc = "exit" /\ failedAt \in {"TempDir::new", "Repository::clone"}) =>
    /\ outcome = "err"
    /\ yielded = <<>>
    /\ output = <<>>
    /\ outputFile = "absent"
    /\ tempDir # "exists"

C8_Witness ==
  /\ pc = "exit" /\ failedAt = "Repository::clone"
  /\ outcome = "err" /\ tempDir = "removed"

\* C9: an included file that cannot be read adds no block to the output,
\* is in the error log exactly when the log is enabled, and does not end
\* the run: the files after it are still handled.
C9_ReadFailureRecoverable ==
  \A i \in 1..Len(yielded) :
    (yielded[i].verdict = "true" /\ ~yielded[i].readable) =>
      /\ i \notin Range(output)
      /\ (i \in Range(errorLog) <=> args.error_log)
      /\ ~(pc = "exit" /\ outcome = "err" /\ i = Len(yielded))

\* what remains when the write to the error log succeeds: the unreadable
\* file is skipped, logged exactly when the log is enabled, and the run
\* goes on
ReadFailureWhenLogWritten ==
  \A i \in 1..Len(yielded) :
    (yielded[i].verdict = "true" /\ ~yielded[i].readable
       /\ ~(failedAt = "write_error_to_log" /\ i = Len(yielded))) =>
      /\ i \notin Range(output)
      /\ (i \in Range(errorLog) <=> args.error_log)
      /\ ~(pc = "exit" /\ outcome = "err" /\ i = Len(yielded))

=============================================================================
